---- MODULE Spec2Model ----
(***************************************************************************)
(* Model of the statistics processing service (app.py).                    *)
(*                                                                         *)
(* The state is the statistics file on disk, the wall clock, the local     *)
(* variables of each scheduler worker thread running populate_stats, and   *)
(* one request thread running get_stats.  populate_stats is split at its   *)
(* externally visible operations: reading the file, the two HTTP GETs,     *)
(* opening the file for writing (which truncates it) and dumping the       *)
(* document into it.                                                       *)
(*                                                                         *)
(* An instant is a whole second and a sub-second part, which is 0 or 1     *)
(* (at the second, or later within it); a formatted timestamp              *)
(* ("%Y-%m-%d %H:%M:%S") has second precision, so it is modelled as a      *)
(* whole number of seconds.  The wall clock is taken to be non-decreasing. *)
(***************************************************************************)
EXTENDS Integers, Sequences, FiniteSets, TLC

----------------------------------------------------------------------------
(* Bounds of the model *)

MaxVal == 1
MaxEvents == 2
MaxFires == 2
MaxSec == 2
MaxWorkers == 2

(* measurement values an upstream event may carry *)
Measures == (0 - 1) .. MaxVal

(* scheduler worker threads *)
Workers == 1 .. MaxWorkers

----------------------------------------------------------------------------
(* Program constants *)

(* float("inf"): larger than every measurement *)
Inf == 1000000

(* "2000-01-01 00:00:00", in seconds *)
EpochSec == 0

(* the instant the service is started at, later than the epoch *)
StartTime == [sec |-> EpochSec + 1, sub |-> 0]

(* value of now before it is assigned *)
NoTime == [sec |-> EpochSec, sub |-> 0]

(* sched.add_job(populate_stats, "interval", seconds=interval) passes no   *)
(* max_instances, so the job runs with APScheduler's default of one        *)
(* concurrently running instance.                                          *)
max_instances_mut == 2
max_instances == 1

(* the defaults with 0 for the minima too *)
DEFAULT_STATS_mut ==
    [ num_flight_schedules   |-> 0,
      num_passenger_checkins |-> 0,
      max_luggage_weight     |-> 0,
      min_luggage_weight     |-> 0,
      max_flight_duration    |-> 0,
      min_flight_duration    |-> 0,
      last_updated           |-> EpochSec ]

DEFAULT_STATS ==
    [ num_flight_schedules   |-> 0,
      num_passenger_checkins |-> 0,
      max_luggage_weight     |-> 0,
      min_luggage_weight     |-> Inf,
      max_flight_duration    |-> 0,
      min_flight_duration    |-> Inf,
      last_updated           |-> EpochSec ]

----------------------------------------------------------------------------
(* Pure helpers *)

(* Python's max() and min() on numbers *)
max(a, b) == IF b > a THEN b ELSE a
min(a, b) == IF b < a THEN b ELSE a

(* now.strftime("%Y-%m-%d %H:%M:%S"): drops the sub-second part *)
(* the same with a field that wraps around, as "%I" does for the hour *)
strftime_mut(t) == t.sec % 2
strftime(t) == t.sec

(* datetime.strptime(text, "%Y-%m-%d %H:%M:%S"): the instant at the start *)
(* of that second                                                         *)
(* a parse that yields the default checkpoint whatever the string *)
strptime_mut(s) == [sec |-> EpochSec, sub |-> 0]

strptime(s) == [sec |-> s, sub |-> 0]

(* An event is a mapping of named fields; the measurement field may be    *)
(* missing.                                                               *)
NoFields == [k \in {} |-> 0]
FlightEvents == {NoFields} \cup {[flight_duration |-> v] : v \in Measures}
CheckinEvents == {NoFields} \cup {[luggage_weight |-> v] : v \in Measures}
(* the lists of at most n events *)
BatchesOf(E, n) == UNION {[1 .. k -> E] : k \in 0 .. n}

(* the event list populate_stats uses for one category: the decoded body  *)
(* of a 200 response, otherwise the initial empty list                    *)
EventsOf_mut(status, body) == body
EventsOf(status, body) == IF status = 200 THEN body ELSE <<>>

(* stats["num_..."] += len(events) *)
AddCount_mut(n, events) == n + 1
AddCount(n, events) == n + Len(events)

(* the loops over the events: value = event.get(field); if value is not   *)
(* None, fold it into the running maximum / minimum                       *)
RECURSIVE FoldMax_mut(_, _, _)
FoldMax_mut(m, events, field) ==
    IF events = <<>> THEN m
    ELSE FoldMax_mut(IF field \in DOMAIN Head(events)
                     THEN Head(events)[field] ELSE m,
                     Tail(events), field)

RECURSIVE FoldMax(_, _, _)
FoldMax(m, events, field) ==
    IF events = <<>> THEN m
    ELSE FoldMax(IF field \in DOMAIN Head(events)
                 THEN max(m, Head(events)[field]) ELSE m,
                 Tail(events), field)

RECURSIVE FoldMin_mut(_, _, _)
FoldMin_mut(m, events, field) ==
    IF events = <<>> THEN m
    ELSE FoldMin_mut(IF field \in DOMAIN Head(events)
                     THEN max(m, Head(events)[field]) ELSE m,
                     Tail(events), field)

(* the same with event.get(field, 0): a missing measurement taken as 0 *)
RECURSIVE FoldMin_mut_default(_, _, _)
FoldMin_mut_default(m, events, field) ==
    IF events = <<>> THEN m
    ELSE FoldMin_mut_default(IF field \in DOMAIN Head(events)
                             THEN min(m, Head(events)[field]) ELSE min(m, 0),
                             Tail(events), field)

RECURSIVE FoldMin(_, _, _)
FoldMin(m, events, field) ==
    IF events = <<>> THEN m
    ELSE FoldMin(IF field \in DOMAIN Head(events)
                 THEN min(m, Head(events)[field]) ELSE m,
                 Tail(events), field)

(* the same starting from the defaults, not from the loaded dictionary *)
Updated_mut(s, fl, ck, t) ==
    [ num_flight_schedules   |-> AddCount(0, fl),
      num_passenger_checkins |-> AddCount(0, ck),
      max_luggage_weight     |-> FoldMax(0, ck, "luggage_weight"),
      min_luggage_weight     |-> FoldMin(Inf, ck, "luggage_weight"),
      max_flight_duration    |-> FoldMax(0, fl, "flight_duration"),
      min_flight_duration    |-> FoldMin(Inf, fl, "flight_duration"),
      last_updated           |-> strftime(t) ]

(* lines 123-142 of populate_stats: the updated stats dictionary *)
Updated(s, fl, ck, t) ==
    [ num_flight_schedules   |-> AddCount(s.num_flight_schedules, fl),
      num_passenger_checkins |-> AddCount(s.num_passenger_checkins, ck),
      max_luggage_weight     |-> FoldMax(s.max_luggage_weight, ck, "luggage_weight"),
      min_luggage_weight     |-> FoldMin(s.min_luggage_weight, ck, "luggage_weight"),
      max_flight_duration    |-> FoldMax(s.max_flight_duration, fl, "flight_duration"),
      min_flight_duration    |-> FoldMin(s.min_flight_duration, fl, "flight_duration"),
      last_updated           |-> strftime(t) ]

(* measurement values present in a batch *)
ValuesIn(events, field) ==
    {events[i][field] : i \in {j \in 1 .. Len(events) : field \in DOMAIN events[j]}}

----------------------------------------------------------------------------
(* State *)

VARIABLES
    clock,      \* wall clock
    delivered,  \* number of events received from the event stores so far
    file,       \* the statistics file: absent, partial (opened for writing
                \* and not completely written) or full
    pc,         \* per worker: position in populate_stats
    exc,        \* per worker: the exception that ended the cycle
    frame,      \* per worker: the locals of populate_stats (stats, now,
                \* the window of the two queries, the event lists, the
                \* response status codes, 0: none) and,
                \* as history, the dictionary read_existing_stats returned
                \* and the places in the store of the events received
    before,     \* per worker, history: the file when write_stats opened it
    started,    \* number of firings of the trigger that started a cycle
    skipped,    \* number of firings of the trigger that were skipped
    rpc,        \* request thread: position in get_stats
    resp,       \* request thread: what get_stats produced
    fed,        \* history: batch lengths folded into the persisted record
    seen,       \* history: measurements folded into the persisted record
    persisted,  \* history: the last document written completely
    store       \* the events recorded in the event store, in the order of
                \* recording, each with its category, the time it was
                \* recorded in, its content and, as history, how many times
                \* it has been counted into a persisted record and whether
                \* a persisted cycle's failed fetch has passed over it

vars == << clock, delivered, file, pc, exc, frame, before, started, skipped,
           rpc, resp, fed, seen, persisted, store >>

Absent == [kind |-> "absent", rec |-> DEFAULT_STATS]
Partial == [kind |-> "partial", rec |-> DEFAULT_STATS]
Full(r) == [kind |-> "full", rec |-> r]

NoResp == [status |-> 0, body |-> DEFAULT_STATS]

NoFrame ==
    [ stats           |-> DEFAULT_STATS,
      loaded          |-> DEFAULT_STATS,
      now             |-> NoTime,
      start_timestamp |-> EpochSec,
      end_timestamp   |-> EpochSec,
      flight_events   |-> <<>>,
      checkin_events  |-> <<>>,
      flight_status   |-> 0,
      checkin_status  |-> 0,
      fetched         |-> {} ]

Statuses == {200, 204, 500}

Categories == {"flight", "checkin"}

(* what the event store answers to ?start_timestamp=..&end_timestamp=..:   *)
(* the places of the events of the category recorded in [start, end)       *)
StoredIds(cat, start, end) ==
    {i \in DOMAIN store : /\ store[i].category = cat
                          /\ start <= store[i].ts
                          /\ store[i].ts < end}

(* and these events, in the order they were recorded *)
StoredEvents(cat, start, end) ==
    LET InWindow(e) == e.category = cat /\ start <= e.ts /\ e.ts < end
        sel == SelectSeq(store, InWindow)
    IN  IF sel = <<>> THEN <<>> ELSE [i \in 1 .. Len(sel) |-> sel[i].ev]

(* history: the store once the cycle with frame fr has persisted its       *)
(* record: the events it received are counted once more, and those of its  *)
(* window whose fetch did not answer 200 are passed over                   *)
Counted(fr) ==
    IF store = <<>> THEN store
    ELSE [i \in DOMAIN store |->
            IF i \in fr.fetched
            THEN [store[i] EXCEPT !.counted = @ + 1]
            ELSE IF /\ fr.start_timestamp <= store[i].ts
                    /\ store[i].ts < fr.end_timestamp
                    /\ 200 # (IF store[i].category = "flight"
                              THEN fr.flight_status ELSE fr.checkin_status)
                 THEN [store[i] EXCEPT !.lost = TRUE]
                 ELSE store[i]]

Running == {p \in Workers : pc[p] # "idle"}

(* get_stats reads the file at one instant and then only hands its result *)
(* over, which touches nothing another thread reads.  The steps of the    *)
(* other threads are therefore taken when no response is pending: a read  *)
(* can fall between any two of them, and its result is looked at in the   *)
(* state it was read in.                                                  *)
NoPendingResponse == rpc = "idle"

Init ==
    /\ clock = StartTime
    /\ delivered = 0
    /\ file = Absent
    /\ pc = [p \in Workers |-> "idle"]
    /\ exc = [p \in Workers |-> "none"]
    /\ frame = [p \in Workers |-> NoFrame]
    /\ before = [p \in Workers |-> Absent]
    /\ started = 0
    /\ skipped = 0
    /\ rpc = "idle"
    /\ resp = NoResp
    /\ fed = [flight |-> 0, checkin |-> 0]
    /\ seen = [flight |-> {}, checkin |-> {}]
    /\ persisted = Absent
    /\ store = <<>>

----------------------------------------------------------------------------
(* Actions *)

(* time passes.  The clock is read only by Load, so the passing of time is *)
(* taken up where a cycle is about to read it.                            *)
Tick ==
    /\ NoPendingResponse
    /\ \E p \in Workers : pc[p] = "load"
    /\ \/ /\ clock.sub = 0
          /\ clock' = [clock EXCEPT !.sub = 1]
       \/ /\ clock.sec < EpochSec + MaxSec
          /\ clock' = [sec |-> clock.sec + 1, sub |-> 0]
    /\ UNCHANGED << delivered, file, pc, exc, frame, before, started, skipped,
                    rpc, resp, fed, seen,
                    persisted, store >>

(* the interval trigger fires and the job is submitted to a free worker    *)
(* thread (the threads are interchangeable: the first free one is taken)  *)
FireRun(p) ==
    /\ NoPendingResponse
    /\ started + skipped < MaxFires
    /\ Cardinality(Running) < max_instances
    /\ pc[p] = "idle"
    /\ \A q \in Workers : pc[q] = "idle" => p <= q
    /\ pc' = [pc EXCEPT ![p] = "load"]
    /\ started' = started + 1
    /\ UNCHANGED << clock, delivered, file, exc, frame, before, skipped,
                    rpc, resp, fed, seen,
                    persisted, store >>

(* the interval trigger fires while the job already has its maximum       *)
(* number of running instances: the run is skipped                        *)
FireSkip ==
    /\ NoPendingResponse
    /\ started + skipped < MaxFires
    /\ Cardinality(Running) >= max_instances
    /\ skipped' = skipped + 1
    /\ UNCHANGED << clock, delivered, file, pc, exc, frame, before, started,
                    rpc, resp, fed, seen,
                    persisted, store >>

(* an exception leaves populate_stats: its frame, with the locals, is     *)
(* gone; the window the cycle had taken is kept as history                *)
Raise(p, e) ==
    /\ pc' = [pc EXCEPT ![p] = "raised"]
    /\ exc' = [exc EXCEPT ![p] = e]
    /\ frame' = [frame EXCEPT ![p] =
                    [NoFrame EXCEPT !.start_timestamp = frame[p].start_timestamp,
                                    !.end_timestamp = frame[p].end_timestamp]]

(* populate_stats, lines 85-93: read_existing_stats(), parse the          *)
(* checkpoint, take the current time                                      *)
Load(p) ==
    /\ NoPendingResponse
    /\ pc[p] = "load"
    /\ \/ /\ file.kind \in {"absent", "full"}
          /\ LET s == IF file.kind = "absent" THEN DEFAULT_STATS ELSE file.rec
             IN  frame' = [frame EXCEPT
                    ![p].stats = s,
                    ![p].loaded = s,
                    ![p].now = clock,
                    ![p].start_timestamp = strftime(strptime(s.last_updated)),
                    ![p].end_timestamp = strftime(clock)]
          /\ pc' = [pc EXCEPT ![p] = "fetch_flight"]
          /\ UNCHANGED exc
       \/ /\ file.kind = "partial"
          /\ Raise(p, "JSONDecodeError")
       \/ /\ file.kind # "absent"
          /\ Raise(p, "OSError_read")
    /\ UNCHANGED << clock, delivered, file, before, started, skipped,
                    rpc, resp, fed, seen, persisted, store >>

(* populate_stats, lines 104 and 108-113: GET the flight schedule events *)
FetchFlight(p) ==
    /\ NoPendingResponse
    /\ pc[p] = "fetch_flight"
    /\ \/ \E s \in Statuses, body \in BatchesOf(FlightEvents, MaxEvents - delivered) :
             /\ delivered' = delivered + Len(EventsOf(s, body))
             /\ frame' = [frame EXCEPT ![p].flight_status = s,
                                       ![p].flight_events = EventsOf(s, body)]
             /\ pc' = [pc EXCEPT ![p] = "fetch_checkin"]
             /\ UNCHANGED exc
       \/ Raise(p, "TransportError") /\ UNCHANGED delivered
       \/ Raise(p, "DecodeError") /\ UNCHANGED delivered
    /\ UNCHANGED << clock, file, before, started, skipped, rpc, resp, fed, seen,
                    persisted, store >>

(* populate_stats, lines 105 and 116-121: GET the passenger check-in events *)
FetchCheckin(p) ==
    /\ NoPendingResponse
    /\ pc[p] = "fetch_checkin"
    /\ \/ \E s \in Statuses, body \in BatchesOf(CheckinEvents, MaxEvents - delivered) :
             /\ delivered' = delivered + Len(EventsOf(s, body))
             /\ frame' = [frame EXCEPT ![p].checkin_status = s,
                                       ![p].checkin_events = EventsOf(s, body)]
             /\ pc' = [pc EXCEPT ![p] = "update"]
             /\ UNCHANGED exc
       \/ Raise(p, "TransportError") /\ UNCHANGED delivered
       \/ Raise(p, "DecodeError") /\ UNCHANGED delivered
    /\ UNCHANGED << clock, file, before, started, skipped, rpc, resp, fed, seen,
                    persisted, store >>

(* populate_stats, lines 123-145 and write_stats, line 56: update the     *)
(* dictionary, then open the file with mode "w", which truncates it       *)
UpdateAndOpen(p) ==
    /\ NoPendingResponse
    /\ pc[p] = "update"
    /\ before' = [before EXCEPT ![p] = file]
    /\ \/ /\ frame' = [frame EXCEPT ![p].stats =
                          Updated(frame[p].stats, frame[p].flight_events,
                                  frame[p].checkin_events, frame[p].now)]
          /\ file' = Partial
          /\ pc' = [pc EXCEPT ![p] = "dump"]
          /\ UNCHANGED exc
       \/ /\ Raise(p, "OSError_open")
          /\ UNCHANGED file
    /\ UNCHANGED << clock, delivered, started, skipped, rpc, resp, fed, seen,
                    persisted, store >>

(* write_stats, line 57: json.dump(stats, file, indent=4) and close *)
Dump(p) ==
    /\ NoPendingResponse
    /\ pc[p] = "dump"
    /\ \/ /\ file' = Full(frame[p].stats)
          /\ pc' = [pc EXCEPT ![p] = "done"]
          /\ fed' = [flight  |-> fed.flight + Len(frame[p].flight_events),
                     checkin |-> fed.checkin + Len(frame[p].checkin_events)]
          /\ seen' = [flight  |-> seen.flight \cup
                                    ValuesIn(frame[p].flight_events, "flight_duration"),
                      checkin |-> seen.checkin \cup
                                    ValuesIn(frame[p].checkin_events, "luggage_weight")]
          /\ persisted' = Full(frame[p].stats)
          /\ store' = Counted(frame[p])
          /\ UNCHANGED << exc, frame >>
       \/ /\ Raise(p, "OSError_write")
          /\ UNCHANGED << file, fed, seen, persisted, store >>
    /\ UNCHANGED << clock, delivered, before, started, skipped, rpc, resp >>

(* the job instance ends, by return or by exception; the worker is free *)
Release(p) ==
    /\ NoPendingResponse
    /\ pc[p] \in {"done", "raised"}
    /\ pc' = [pc EXCEPT ![p] = "idle"]
    /\ exc' = [exc EXCEPT ![p] = "none"]
    /\ frame' = [frame EXCEPT ![p] = NoFrame]
    /\ before' = [before EXCEPT ![p] = Absent]
    /\ UNCHANGED << clock, delivered, file, started, skipped, rpc, resp, fed, seen,
                    persisted, store >>

(* get_stats: 404 when the file does not exist, otherwise json.load, which *)
(* raises on an incomplete document (the request fails with status 500)   *)
GetStats ==
    /\ rpc = "idle"
    /\ rpc' = "responded"
    /\ resp' = CASE file.kind = "absent"  -> [status |-> 404, body |-> DEFAULT_STATS]
                 [] file.kind = "full"    -> [status |-> 200, body |-> file.rec]
                 [] file.kind = "partial" -> [status |-> 500, body |-> DEFAULT_STATS]
    /\ UNCHANGED << clock, delivered, file, pc, exc, frame, before, started, skipped,
                    fed, seen,
                    persisted, store >>

(* the response has been delivered *)
GetStatsEnd ==
    /\ rpc = "responded"
    /\ rpc' = "idle"
    /\ resp' = NoResp
    /\ UNCHANGED << clock, delivered, file, pc, exc, frame, before, started, skipped,
                    fed, seen,
                    persisted, store >>

(* an event of the category is recorded in the event store, with the      *)
(* second of the current time as its timestamp (the bounds of a window    *)
(* are whole seconds, so only the second decides whether the event is in  *)
(* it).  The store is read only through windows that end at a time read   *)
(* by Load, so, like the passing of time, the recording is taken up where *)
(* a cycle is about to read the clock.                                    *)
Record(cat) ==
    /\ NoPendingResponse
    /\ \E p \in Workers : pc[p] = "load"
    /\ Len(store) < MaxEvents
    /\ store' = Append(store, [category |-> cat, ts |-> clock.sec,
                               ev |-> IF cat = "flight" THEN [flight_duration |-> MaxVal]
                                                        ELSE [luggage_weight |-> MaxVal],
                               counted |-> 0, lost |-> FALSE])
    /\ UNCHANGED << clock, delivered, file, pc, exc, frame, before, started, skipped,
                    rpc, resp, fed, seen, persisted >>

(* populate_stats, lines 104 and 108-113, against an event store that      *)
(* answers with exactly the recorded events of the window                 *)
FetchFlightStored(p) ==
    /\ NoPendingResponse
    /\ pc[p] = "fetch_flight"
    /\ \/ \E s \in Statuses :
             LET body == StoredEvents("flight", frame[p].start_timestamp,
                                      frame[p].end_timestamp)
                 ids == StoredIds("flight", frame[p].start_timestamp,
                                  frame[p].end_timestamp)
             IN  /\ delivered' = delivered + Len(EventsOf(s, body))
                 /\ frame' = [frame EXCEPT
                        ![p].flight_status = s,
                        ![p].flight_events = EventsOf(s, body),
                        ![p].fetched = IF EventsOf(s, body) = <<>> THEN @ ELSE @ \cup ids]
                 /\ pc' = [pc EXCEPT ![p] = "fetch_checkin"]
                 /\ UNCHANGED exc
       \/ Raise(p, "TransportError") /\ UNCHANGED delivered
       \/ Raise(p, "DecodeError") /\ UNCHANGED delivered
    /\ UNCHANGED << clock, file, before, started, skipped, rpc, resp, fed, seen,
                    persisted, store >>

(* populate_stats, lines 105 and 116-121, against the same event store *)
FetchCheckinStored(p) ==
    /\ NoPendingResponse
    /\ pc[p] = "fetch_checkin"
    /\ \/ \E s \in Statuses :
             LET body == StoredEvents("checkin", frame[p].start_timestamp,
                                      frame[p].end_timestamp)
                 ids == StoredIds("checkin", frame[p].start_timestamp,
                                  frame[p].end_timestamp)
             IN  /\ delivered' = delivered + Len(EventsOf(s, body))
                 /\ frame' = [frame EXCEPT
                        ![p].checkin_status = s,
                        ![p].checkin_events = EventsOf(s, body),
                        ![p].fetched = IF EventsOf(s, body) = <<>> THEN @ ELSE @ \cup ids]
                 /\ pc' = [pc EXCEPT ![p] = "update"]
                 /\ UNCHANGED exc
       \/ Raise(p, "TransportError") /\ UNCHANGED delivered
       \/ Raise(p, "DecodeError") /\ UNCHANGED delivered
    /\ UNCHANGED << clock, file, before, started, skipped, rpc, resp, fed, seen,
                    persisted, store >>

Next ==
    \/ Tick
    \/ \E p \in Workers : FireRun(p)
    \/ FireSkip
    \/ \E p \in Workers : Load(p)
    \/ \E p \in Workers : FetchFlight(p)
    \/ \E p \in Workers : FetchCheckin(p)
    \/ \E p \in Workers : UpdateAndOpen(p)
    \/ \E p \in Workers : Dump(p)
    \/ \E p \in Workers : Release(p)
    \/ GetStats
    \/ GetStatsEnd

Spec == Init /\ [][Next]_vars

(* the cycles run against an event store that holds the recorded events    *)
(* and answers each query with exactly those of its window                *)
StoredNext ==
    \/ Tick
    \/ \E cat \in Categories : Record(cat)
    \/ \E p \in Workers : FireRun(p)
    \/ FireSkip
    \/ \E p \in Workers : Load(p)
    \/ \E p \in Workers : FetchFlightStored(p)
    \/ \E p \in Workers : FetchCheckinStored(p)
    \/ \E p \in Workers : UpdateAndOpen(p)
    \/ \E p \in Workers : Dump(p)
    \/ \E p \in Workers : Release(p)

(* the event store has been recording since the default checkpoint; the   *)
(* service is started at any time from then on                            *)
StoredInit ==
    /\ clock = strptime(DEFAULT_STATS.last_updated)
    /\ delivered = 0
    /\ file = Absent
    /\ pc = [p \in Workers |-> "idle"]
    /\ exc = [p \in Workers |-> "none"]
    /\ frame = [p \in Workers |-> NoFrame]
    /\ before = [p \in Workers |-> Absent]
    /\ started = 0
    /\ skipped = 0
    /\ rpc = "idle"
    /\ resp = NoResp
    /\ fed = [flight |-> 0, checkin |-> 0]
    /\ seen = [flight |-> {}, checkin |-> {}]
    /\ persisted = Absent
    /\ store = <<>>

StoredSpec == StoredInit /\ [][StoredNext]_vars

----------------------------------------------------------------------------
(* Properties *)

(* largest and smallest element of a non-empty finite set of numbers *)
SetMax(S) == CHOOSE x \in S : \A y \in S : y <= x
SetMin(S) == CHOOSE x \in S : \A y \in S : x <= y

(* the persisted record is a complete document *)
Persisted == file.kind = "full"

(* worker p has completed a cycle and has not yet been released *)
Completed(p) == pc[p] = "done"

(* C1: whenever a complete record is persisted, each counter equals the    *)
(* sum of the lengths of the batches of its category folded in by the     *)
(* cycles persisted so far (a failed fetch contributing the empty list),  *)
(* and a completed cycle leaves each counter at least as large as in the  *)
(* record it replaced.                                                    *)
C1_CountersAreBatchSums ==
    /\ Persisted =>
          /\ file.rec.num_flight_schedules = fed.flight
          /\ file.rec.num_passenger_checkins = fed.checkin
    /\ \A p \in Workers :
          Completed(p) /\ before[p].kind = "full" =>
             /\ Persisted
             /\ file.rec.num_flight_schedules >= before[p].rec.num_flight_schedules
             /\ file.rec.num_passenger_checkins >= before[p].rec.num_passenger_checkins

C1_Witness ==
    \E p \in Workers :
       /\ Completed(p)
       /\ before[p].kind = "full"
       /\ frame[p].checkin_status = 500
       /\ frame[p].flight_status = 200
       /\ file.rec.num_flight_schedules = 2
       /\ before[p].rec.num_flight_schedules = 1
       /\ file.rec.num_passenger_checkins = before[p].rec.num_passenger_checkins

(* what a completed cycle of worker p must have persisted for a category  *)
(* whose fetch failed: the loaded values                                  *)
FlightUntouched(p) ==
    /\ file.rec.num_flight_schedules = frame[p].loaded.num_flight_schedules
    /\ file.rec.max_flight_duration = frame[p].loaded.max_flight_duration
    /\ file.rec.min_flight_duration = frame[p].loaded.min_flight_duration

CheckinUntouched(p) ==
    /\ file.rec.num_passenger_checkins = frame[p].loaded.num_passenger_checkins
    /\ file.rec.max_luggage_weight = frame[p].loaded.max_luggage_weight
    /\ file.rec.min_luggage_weight = frame[p].loaded.min_luggage_weight

(* ... and for a category whose fetch succeeded: the loaded values and    *)
(* the batch, and nothing else                                            *)
FlightFromBatch(p) ==
    LET vals == ValuesIn(frame[p].flight_events, "flight_duration")
    IN  /\ file.rec.num_flight_schedules =
              frame[p].loaded.num_flight_schedules + Len(frame[p].flight_events)
        /\ file.rec.max_flight_duration =
              SetMax(vals \cup {frame[p].loaded.max_flight_duration})
        /\ file.rec.min_flight_duration =
              SetMin(vals \cup {frame[p].loaded.min_flight_duration})

CheckinFromBatch(p) ==
    LET vals == ValuesIn(frame[p].checkin_events, "luggage_weight")
    IN  /\ file.rec.num_passenger_checkins =
              frame[p].loaded.num_passenger_checkins + Len(frame[p].checkin_events)
        /\ file.rec.max_luggage_weight =
              SetMax(vals \cup {frame[p].loaded.max_luggage_weight})
        /\ file.rec.min_luggage_weight =
              SetMin(vals \cup {frame[p].loaded.min_luggage_weight})

(* the persisted checkpoint is the second in which the cycle of worker p  *)
(* took its end time                                                      *)
CheckpointIsEnd(p) ==
    /\ file.rec.last_updated = frame[p].now.sec
    /\ file.rec.last_updated = frame[p].end_timestamp
    /\ file.rec.last_updated >= frame[p].start_timestamp

(* C2: a completed cycle in which one fetch answered 500 and the other    *)
(* answered 200 with a batch has persisted a record in which the failed   *)
(* category is as loaded, the other category is the loaded values         *)
(* combined with the batch, and last_updated is the cycle's end time.     *)
C2_PartialFailureIsolation ==
    \A p \in Workers :
       /\ (Completed(p) /\ frame[p].flight_status = 500
                        /\ frame[p].checkin_status = 200) =>
             /\ Persisted
             /\ FlightUntouched(p)
             /\ CheckinFromBatch(p)
             /\ CheckpointIsEnd(p)
       /\ (Completed(p) /\ frame[p].checkin_status = 500
                        /\ frame[p].flight_status = 200) =>
             /\ Persisted
             /\ CheckinUntouched(p)
             /\ FlightFromBatch(p)
             /\ CheckpointIsEnd(p)

C2_Witness ==
    \E p \in Workers :
       /\ Completed(p)
       /\ frame[p].checkin_status = 500
       /\ frame[p].flight_status = 200
       /\ frame[p].loaded.max_flight_duration = 0
       /\ frame[p].loaded.min_flight_duration = 0 - 1
       /\ frame[p].flight_events = << [flight_duration |-> 1] >>
       /\ file.rec.max_flight_duration = 1
       /\ file.rec.min_flight_duration = 0 - 1
       /\ file.rec.num_flight_schedules = 2
       /\ file.rec.num_passenger_checkins = 0
       /\ file.rec.min_luggage_weight = Inf
       /\ file.rec.last_updated > frame[p].loaded.last_updated

(* C3 (as claimed): no cycle is ended by an exception of a fetch, be it a *)
(* transport failure or an undecodable body.                              *)
C3_FetchFailureNeverAborts ==
    \A p \in Workers : exc[p] \notin {"TransportError", "DecodeError"}

(* C4: a completed cycle has persisted a checkpoint that is not earlier   *)
(* than the checkpoint of the record it replaced.                         *)
C4_CheckpointMonotone ==
    \A p \in Workers :
       Completed(p) /\ before[p].kind = "full" =>
          /\ Persisted
          /\ file.rec.last_updated >= before[p].rec.last_updated

C4_Witness ==
    \E p \in Workers :
       /\ Completed(p)
       /\ before[p].kind = "full"
       /\ file.rec.last_updated > before[p].rec.last_updated

C6_ReadersSeeCompleteRecords ==
    rpc = "responded" => resp.status \in {404, 200}

(* C7 (as claimed): when write_stats fails, the file is as it was before  *)
(* write_stats was called.                                                *)
C7_FailedSaveLeavesFileUntouched ==
    \A p \in Workers :
       pc[p] = "raised" /\ exc[p] \in {"OSError_open", "OSError_write"} =>
          file = before[p]

(* C8 (as claimed): populate_stats never ends by an exception.            *)
C8_CycleNeverRaises ==
    \A p \in Workers : pc[p] # "raised"

(* C9: once a measurement of a category has been folded into the          *)
(* persisted record, that category's minimum is at most its maximum.      *)
C9_MinAtMostMax ==
    Persisted =>
       /\ seen.flight # {} =>
             file.rec.min_flight_duration <= file.rec.max_flight_duration
       /\ seen.checkin # {} =>
             file.rec.min_luggage_weight <= file.rec.max_luggage_weight

C9_Witness ==
    /\ Persisted
    /\ seen.flight = {0 - 1, 1}
    /\ file.rec.min_flight_duration < file.rec.max_flight_duration
    /\ seen.checkin = {}

(* C10 (as claimed): the persisted maximum and minimum of a category are  *)
(* the largest and the smallest measurement folded in, whatever their     *)
(* sign.                                                                  *)
C10_ExtremaOfFolded ==
    Persisted =>
       /\ seen.flight # {} =>
             /\ file.rec.max_flight_duration = SetMax(seen.flight)
             /\ file.rec.min_flight_duration = SetMin(seen.flight)
       /\ seen.checkin # {} =>
             /\ file.rec.max_luggage_weight = SetMax(seen.checkin)
             /\ file.rec.min_luggage_weight = SetMin(seen.checkin)

(* C10 (amended): the persisted maximum is the largest of 0, the initial  *)
(* maximum, and the measurements folded in; the persisted minimum is the  *)
(* smallest measurement folded in, and infinity when there is none.       *)
C10_ExtremaOfFoldedAndDefaults ==
    Persisted =>
       /\ file.rec.max_flight_duration = SetMax(seen.flight \cup {0})
       /\ file.rec.min_flight_duration = SetMin(seen.flight \cup {Inf})
       /\ file.rec.max_luggage_weight = SetMax(seen.checkin \cup {0})
       /\ file.rec.min_luggage_weight = SetMin(seen.checkin \cup {Inf})

C10_Witness ==
    /\ Persisted
    /\ seen.flight = {0 - 1}
    /\ file.rec.max_flight_duration = 0
    /\ file.rec.min_flight_duration = 0 - 1
    /\ seen.checkin = {1}
    /\ file.rec.max_luggage_weight = 1
    /\ file.rec.min_luggage_weight = 1

(* C11: a completed cycle that started from the default record and folded  *)
(* a single check-in event carrying a positive luggage_weight has          *)
(* persisted that weight as both minimum and maximum; and whenever the     *)
(* loaded minimum of a category was still infinite and the batch carried a *)
(* measurement, the persisted minimum is a measurement of the batch.       *)
C11_SentinelReplaced ==
    \A p \in Workers :
       Completed(p) =>
          LET ck == frame[p].checkin_events
              cv == ValuesIn(ck, "luggage_weight")
              fv == ValuesIn(frame[p].flight_events, "flight_duration")
          IN  /\ (before[p].kind = "absent" /\ Len(ck) = 1 /\ cv # {}) =>
                    /\ file.rec.min_luggage_weight = ck[1].luggage_weight
                    /\ ck[1].luggage_weight > 0 =>
                          file.rec.max_luggage_weight = ck[1].luggage_weight
              /\ (frame[p].loaded.min_luggage_weight = Inf /\ cv # {}) =>
                    file.rec.min_luggage_weight \in cv
              /\ (frame[p].loaded.min_flight_duration = Inf /\ fv # {}) =>
                    file.rec.min_flight_duration \in fv

C11_Witness ==
    \E p \in Workers :
       /\ Completed(p)
       /\ before[p].kind = "absent"
       /\ frame[p].loaded = DEFAULT_STATS
       /\ frame[p].checkin_events = << [luggage_weight |-> MaxVal] >>
       /\ file.rec.min_luggage_weight = MaxVal
       /\ file.rec.max_luggage_weight = MaxVal

(* C12: a completed cycle whose two fetches both answered 200 with an      *)
(* empty list has persisted the loaded record with nothing but             *)
(* last_updated changed.                                                   *)
C12_EmptyWindowChangesOnlyCheckpoint ==
    \A p \in Workers :
       (/\ Completed(p)
        /\ frame[p].flight_status = 200 /\ frame[p].flight_events = <<>>
        /\ frame[p].checkin_status = 200 /\ frame[p].checkin_events = <<>>) =>
          /\ Persisted
          /\ file.rec = [frame[p].loaded EXCEPT !.last_updated = frame[p].end_timestamp]
          /\ before[p].kind = "full" => frame[p].loaded = before[p].rec

C12_Witness ==
    \E p \in Workers :
       /\ Completed(p)
       /\ frame[p].flight_status = 200 /\ frame[p].flight_events = <<>>
       /\ frame[p].checkin_status = 200 /\ frame[p].checkin_events = <<>>
       /\ before[p].kind = "full"
       /\ before[p].rec.num_flight_schedules = 1
       /\ before[p].rec.max_flight_duration = 1
       /\ file.rec.last_updated > before[p].rec.last_updated

(* C13 (as claimed): get_stats answers 404 exactly while no record has     *)
(* been persisted, and from then on 200 with the record persisted last.    *)
C13_NotFoundUntilPersisted ==
    rpc = "responded" =>
       IF persisted.kind = "absent"
       THEN resp.status = 404
       ELSE resp.status = 200 /\ resp.body = persisted.rec

(* C14 (as claimed): a response of get_stats with status 200 never carries *)
(* the infinite sentinel as a minimum.                                     *)
C14_SentinelNeverExposed ==
    (rpc = "responded" /\ resp.status = 200) =>
       /\ resp.body.min_flight_duration # Inf
       /\ resp.body.min_luggage_weight # Inf

(* C15 (as claimed): the window of a cycle starts at the checkpoint of the *)
(* record it loaded and ends at the current time, and the cycle persists   *)
(* that end as the checkpoint whether or not its fetches succeeded, so     *)
(* that the next window starts where this one ended.                       *)
C15_WindowsChain ==
    \A p \in Workers :
       /\ pc[p] \in {"fetch_flight", "fetch_checkin", "update", "dump", "done"} =>
             /\ frame[p].start_timestamp = frame[p].loaded.last_updated
             /\ frame[p].end_timestamp = frame[p].now.sec
       /\ (\/ Completed(p)
           \/ pc[p] = "raised" /\ exc[p] \in {"TransportError", "DecodeError"}) =>
             /\ Persisted
             /\ file.rec.last_updated = frame[p].end_timestamp

(* C16: a completed cycle whose batch of a category consists of events     *)
(* without the measurement field has added the number of those events to   *)
(* the category's counter and has left its minimum and maximum as loaded.  *)
C16_MissingMeasurementCountsOnly ==
    \A p \in Workers :
       Completed(p) =>
          /\ (frame[p].flight_events # <<>>
              /\ ValuesIn(frame[p].flight_events, "flight_duration") = {}) =>
                /\ file.rec.num_flight_schedules =
                      frame[p].loaded.num_flight_schedules + Len(frame[p].flight_events)
                /\ file.rec.max_flight_duration = frame[p].loaded.max_flight_duration
                /\ file.rec.min_flight_duration = frame[p].loaded.min_flight_duration
          /\ (frame[p].checkin_events # <<>>
              /\ ValuesIn(frame[p].checkin_events, "luggage_weight") = {}) =>
                /\ file.rec.num_passenger_checkins =
                      frame[p].loaded.num_passenger_checkins + Len(frame[p].checkin_events)
                /\ file.rec.max_luggage_weight = frame[p].loaded.max_luggage_weight
                /\ file.rec.min_luggage_weight = frame[p].loaded.min_luggage_weight

C16_Witness ==
    \E p \in Workers :
       /\ Completed(p)
       /\ frame[p].flight_events = << NoFields >>
       /\ frame[p].loaded.num_flight_schedules = 1
       /\ frame[p].loaded.min_flight_duration = 1
       /\ file.rec.num_flight_schedules = 2
       /\ file.rec.min_flight_duration = 1
       /\ file.rec.max_flight_duration = 1

(* C17 (as claimed): a cycle that follows a failed save reads the record   *)
(* persisted before it and goes on.  The file is left incomplete only by   *)
(* a failed save (cycles do not overlap), so the claim is that no cycle    *)
(* finds an incomplete document when it loads.                             *)
C17_CycleAfterFailedSaveLoads ==
    \A p \in Workers : ~(pc[p] = "raised" /\ exc[p] = "JSONDecodeError")

(* C18 (as claimed): no cycle is ended by a failure to read or decode the  *)
(* statistics file; it goes on from the defaults.                          *)
C18_LoadFailureGivesDefaults ==
    \A p \in Workers : exc[p] \notin {"OSError_read", "JSONDecodeError"}

(* C19: against an event store that answers each query with exactly the    *)
(* events recorded in its window, no event is counted into the persisted   *)
(* record more than once, the persisted counters are the numbers of the    *)
(* counted events, and every event recorded before the persisted           *)
(* checkpoint has been counted exactly once unless the fetch of its        *)
(* category did not answer 200 in the persisted cycle whose window held it.*)
C19_EachEventCountedOnce ==
    /\ \A i \in DOMAIN store :
          /\ store[i].counted <= 1
          /\ store[i].lost => store[i].counted = 0
    /\ Persisted =>
          /\ \A i \in DOMAIN store :
                (EpochSec <= store[i].ts /\ store[i].ts < file.rec.last_updated) =>
                   (store[i].counted = 1 \/ store[i].lost)
          /\ file.rec.num_flight_schedules =
                Cardinality({i \in DOMAIN store :
                                store[i].category = "flight" /\ store[i].counted >= 1})
          /\ file.rec.num_passenger_checkins =
                Cardinality({i \in DOMAIN store :
                                store[i].category = "checkin" /\ store[i].counted >= 1})

C19_Witness ==
    /\ Persisted
    /\ Len(store) = 2
    /\ store[1].category = "flight" /\ store[1].ts = EpochSec
    /\ store[2].category = "flight" /\ store[2].ts = EpochSec + 1
    /\ store[1].counted = 1 /\ store[2].counted = 1
    /\ file.rec.num_flight_schedules = 2
    /\ file.rec.last_updated = EpochSec + 2
    /\ \E p \in Workers : Completed(p) /\ frame[p].fetched = {2}

(* C20: a completed cycle has persisted, for each category, a maximum not  *)
(* below and a minimum not above those of the record it replaced (of the   *)
(* defaults when there was none).                                          *)
C20_ExtremaMonotone ==
    \A p \in Workers :
       Completed(p) =>
          LET old == IF before[p].kind = "full" THEN before[p].rec ELSE DEFAULT_STATS
          IN  /\ Persisted
              /\ file.rec.max_flight_duration >= old.max_flight_duration
              /\ file.rec.min_flight_duration <= old.min_flight_duration
              /\ file.rec.max_luggage_weight >= old.max_luggage_weight
              /\ file.rec.min_luggage_weight <= old.min_luggage_weight

C20_Witness ==
    \E p \in Workers :
       /\ Completed(p)
       /\ before[p].kind = "full"
       /\ before[p].rec.max_flight_duration = 1
       /\ before[p].rec.min_flight_duration = 1
       /\ frame[p].flight_events = << [flight_duration |-> 0 - 1] >>
       /\ frame[p].checkin_status = 500
       /\ file.rec.max_flight_duration = 1
       /\ file.rec.min_flight_duration = 0 - 1
====
